---- MODULE Spec2Model ----
(***************************************************************************)
(* A model of the identifier-case converters (toKebabCase, camelCase,      *)
(* dotCase) and of the comment routes (GET /post/:postId,                  *)
(* DELETE /:commentId).                                                    *)
(*                                                                         *)
(* A JavaScript string is a sequence of one-character strings.  A call     *)
(* ends in a completion: a returned value or a thrown exception.           *)
(***************************************************************************)
EXTENDS Integers, Sequences, FiniteSets, TLC

\* The longest enumerated input string.
MaxLen == 4

VARIABLES kind, input, style, output, again, pc,
          comments, reqs, deletedOk

convVars == <<kind, input, style, output, again, pc>>
routeVars == <<comments, reqs, deletedOk>>
vars == <<kind, input, style, output, again, pc, comments, reqs, deletedOk>>

----------------------------------------------------------------------------
\* Character classes of the regular expressions.

LowerSeq ==
  <<"a","b","c","d","e","f","g","h","i","j","k","l","m",
    "n","o","p","q","r","s","t","u","v","w","x","y","z">>

UpperSeq ==
  <<"A","B","C","D","E","F","G","H","I","J","K","L","M",
    "N","O","P","Q","R","S","T","U","V","W","X","Y","Z">>

\* [a-z]
Lower == {LowerSeq[i] : i \in DOMAIN LowerSeq}

\* [A-Z]
Upper == {UpperSeq[i] : i \in DOMAIN UpperSeq}

\* [0-9]
Digit == {"0","1","2","3","4","5","6","7","8","9"}

\* [a-zA-Z0-9], the complement of the class /[^a-zA-Z0-9]/
AlphaNum == Lower \cup Upper \cup Digit

\* \s (its ASCII members), also what String.prototype.trim removes
WhiteSpace == {" ", "\t", "\n", "\r"}

\* [_\-]
UnderscoreHyphen == {"_", "-"}

\* [-_\s]
Separator == {"-", "_"} \cup WhiteSpace

LetterIndex(seq, c) == CHOOSE i \in DOMAIN seq : seq[i] = c

\* String.prototype.toLowerCase on one character
ToLowerChar(c) == IF c \in Upper THEN LowerSeq[LetterIndex(UpperSeq, c)] ELSE c

\* String.prototype.toUpperCase on one character
ToUpperChar(c) == IF c \in Lower THEN UpperSeq[LetterIndex(LowerSeq, c)] ELSE c

toLowerCase(s) == [i \in DOMAIN s |-> ToLowerChar(s[i])]

----------------------------------------------------------------------------
\* String and array primitives.

RECURSIVE DropWhile(_, _)
DropWhile(s, Cls) ==
  IF s # <<>> /\ Head(s) \in Cls THEN DropWhile(Tail(s), Cls) ELSE s

RECURSIVE DropWhileEnd(_, _)
DropWhileEnd(s, Cls) ==
  IF s # <<>> /\ s[Len(s)] \in Cls
  THEN DropWhileEnd(SubSeq(s, 1, Len(s) - 1), Cls)
  ELSE s

\* String.prototype.trim
trim(s) == DropWhileEnd(DropWhile(s, WhiteSpace), WhiteSpace)

\* s.replace(/[Cls]+/g, rep): every maximal run of Cls becomes rep
RECURSIVE ReplaceRuns(_, _, _)
ReplaceRuns(s, Cls, rep) ==
  IF s = <<>> THEN <<>>
  ELSE IF Head(s) \in Cls
       THEN rep \o ReplaceRuns(DropWhile(s, Cls), Cls, rep)
       ELSE <<Head(s)>> \o ReplaceRuns(Tail(s), Cls, rep)

\* s.split(/[Cls]+/): the pieces between the runs; a run at either end
\* leaves an empty piece there, and the empty string splits into [""]
RECURSIVE SplitFrom(_, _, _)
SplitFrom(s, Cls, cur) ==
  IF s = <<>> THEN <<cur>>
  ELSE IF Head(s) \in Cls
       THEN <<cur>> \o SplitFrom(DropWhile(s, Cls), Cls, <<>>)
       ELSE SplitFrom(Tail(s), Cls, Append(cur, Head(s)))

SplitRuns(s, Cls) == SplitFrom(s, Cls, <<>>)

\* s.replace(/[^a-zA-Z0-9]/g, '')
RemoveNonAlphaNum(s) == SelectSeq(s, LAMBDA c : c \in AlphaNum)

\* words.filter(Boolean), words.filter(word => word.length > 0)
FilterNonEmpty(words) == SelectSeq(words, LAMBDA w : w # <<>>)

\* words.join(sep)
RECURSIVE Join(_, _)
Join(words, sep) ==
  IF words = <<>> THEN <<>>
  ELSE IF Len(words) = 1 THEN words[1]
  ELSE words[1] \o sep \o Join(Tail(words), sep)

\* A completion of a call.
Return(v) == [type |-> "return", value |-> v]

\* TypeError: calling a String method on a value that has none
ThrowTypeError == [type |-> "throw", value |-> <<>>]

\* typeof v === 'string'
IsString(k) == k = "string"

\* v == null
IsNullish(k) == k \in {"null", "undefined"}

\* !v : null, undefined, 0, false and '' are falsy
Falsy(k, v) == k \in {"null", "undefined", "zero", "false"} \/ (k = "string" /\ v = <<>>)

----------------------------------------------------------------------------
\* src/chain_prompt.js

\* text.replace(/([a-z])([A-Z])/g, '$1 $2'); matching resumes after the
\* uppercase letter of a match
RECURSIVE InsertCaseBoundary(_)
InsertCaseBoundary(s) ==
  IF Len(s) < 2 THEN s
  ELSE IF s[1] \in Lower /\ s[2] \in Upper
       THEN <<s[1], " ", s[2]>> \o InsertCaseBoundary(SubSeq(s, 3, Len(s)))
       ELSE <<s[1]>> \o InsertCaseBoundary(Tail(s))

\* Step 1: the chain replace, replace, split
KebabSplit(text) ==
  SplitRuns(ReplaceRuns(InsertCaseBoundary(text), UnderscoreHyphen, <<" ">>),
            WhiteSpace)

\* Step 2: words.map(w => w.toLowerCase())
KebabLower(words) == [i \in DOMAIN words |-> toLowerCase(words[i])]

\* s.replace(/^-+|-+$/g, '')
TrimHyphens(s) == DropWhileEnd(DropWhile(s, {"-"}), {"-"})

\* Step 3: words.filter(Boolean).join('-').replace(/^-+|-+$/g, '')
KebabJoin(words) == TrimHyphens(Join(FilterNonEmpty(words), <<"-">>))

\* toKebabCase without its typeof test: a truthy non-string reaches
\* text.replace, which it does not have.
toKebabCase_NoTypeofTest(k, text) ==
  IF Falsy(k, text) THEN Return(<<>>)
  ELSE IF ~IsString(k) THEN ThrowTypeError
  ELSE Return(KebabJoin(KebabLower(KebabSplit(text))))

toKebabCase(k, text) ==
  IF ~IsString(k) \/ Falsy(k, text) THEN Return(<<>>)
  ELSE Return(KebabJoin(KebabLower(KebabSplit(text))))

----------------------------------------------------------------------------
\* src/refined_promot.js

\* The words of the trimmed input: separators to one space, trim, split,
\* drop the empty pieces (shared text of camelCase and dotCase)
\* The separator class written without the underscore.
SeparatorWords_NoUnderscore(trimmed) ==
  FilterNonEmpty(
    SplitRuns(trim(ReplaceRuns(trimmed, {"-"} \cup WhiteSpace, <<" ">>)),
              {"-"} \cup WhiteSpace))

SeparatorWords(trimmed) ==
  FilterNonEmpty(
    SplitRuns(trim(ReplaceRuns(trimmed, Separator, <<" ">>)), Separator))

\* The callback of filteredWords.map in camelCase; index counts from 0
CamelProcessWord(word, index) ==
  LET cleaned == RemoveNonAlphaNum(word)
  IN IF cleaned = <<>> THEN <<>>
     ELSE IF index = 0
          THEN <<ToLowerChar(cleaned[1])>> \o Tail(cleaned)
          ELSE <<ToUpperChar(cleaned[1])>> \o toLowerCase(Tail(cleaned))

CamelJoin(filteredWords) ==
  Join(FilterNonEmpty([i \in DOMAIN filteredWords |->
                         CamelProcessWord(filteredWords[i], i - 1)]), <<>>)

camelCase(k, inp) ==
  IF IsNullish(k) THEN Return(<<>>)
  ELSE IF ~IsString(k) THEN Return(<<>>)
  ELSE LET trimmed == trim(inp)
       IN IF trimmed = <<>> THEN Return(<<>>)
          ELSE LET filteredWords == SeparatorWords(trimmed)
               IN IF filteredWords = <<>> THEN Return(<<>>)
                  ELSE Return(CamelJoin(filteredWords))

\* The callback of filteredWords.map in dotCase
DotProcessWord(word) == toLowerCase(RemoveNonAlphaNum(word))

\* dotCase without the filter before join('.').
DotJoin_NoFilter(filteredWords) ==
  Join([i \in DOMAIN filteredWords |-> DotProcessWord(filteredWords[i])], <<".">>)

DotJoin(filteredWords) ==
  Join(FilterNonEmpty([i \in DOMAIN filteredWords |->
                         DotProcessWord(filteredWords[i])]), <<".">>)

dotCase(k, inp) ==
  IF IsNullish(k) THEN Return(<<>>)
  ELSE IF ~IsString(k) THEN Return(<<>>)
  ELSE LET trimmed == trim(inp)
       IN IF trimmed = <<>> THEN Return(<<>>)
          ELSE LET filteredWords == SeparatorWords(trimmed)
               IN IF filteredWords = <<>> THEN Return(<<>>)
                  ELSE Return(DotJoin(filteredWords))

\* The converter of each style
Convert(st, k, v) ==
  CASE st = "kebab" -> toKebabCase(k, v)
    [] st = "camel" -> camelCase(k, v)
    [] st = "dot"   -> dotCase(k, v)

----------------------------------------------------------------------------
\* The inputs of a call.

\* The characters the enumerated inputs are made of: a lowercase and an
\* uppercase letter, a digit, the three separators and a symbol.
Alphabet == {"a", "A", "1", " ", "-", "_", "@"}

Strings == UNION {[1..n -> Alphabet] : n \in 0..MaxLen}

\* Inputs of the examples and tests in the sources.
UserName == <<"u","s","e","r","@","n","a","m","e","!">>
FirstName == <<"f","i","r","s","t","N","a","m","e">>
HELLO == <<"H","E","L","L","O">>
HelloWorld == <<"h","e","l","l","o","_","w","o","r","l","d">>

Samples == {UserName, FirstName, HELLO, HelloWorld}

\* typeof and truthiness of the values that are not strings
NonStringKinds == {"null", "undefined", "zero", "number", "false", "true", "object"}

NoCompletion == [type |-> "none", value |-> <<>>]

InitRoutesIdle ==
  /\ comments = {}
  /\ reqs = <<>>
  /\ deletedOk = {}

Init ==
  /\ \/ kind = "string" /\ input \in Strings \cup Samples
     \/ kind \in NonStringKinds /\ input = <<>>
  /\ style = "none"
  /\ output = NoCompletion
  /\ again = NoCompletion
  /\ pc = "start"
  /\ InitRoutesIdle

\* A call of one converter on the input.
Call(st) ==
  /\ pc = "start"
  /\ style' = st
  /\ output' = Convert(st, kind, input)
  /\ pc' = "done"
  /\ UNCHANGED <<kind, input, again, routeVars>>

CallToKebabCase == Call("kebab")

CallCamelCase == Call("camel")

CallDotCase == Call("dot")

\* The same converter called on the string it returned.
CallAgain ==
  /\ pc = "done"
  /\ output.type = "return"
  /\ again' = Convert(style, "string", output.value)
  /\ pc' = "redone"
  /\ UNCHANGED <<kind, input, style, output, routeVars>>

Next == CallToKebabCase \/ CallCamelCase \/ CallDotCase \/ CallAgain

Spec == Init /\ [][Next]_vars

----------------------------------------------------------------------------
\* Properties of the converters, checked under Spec.

Returned(v) == output = Return(v)

\* The three separator characters the claims name.
NamedSeparators == {" ", "-", "_"}

\* null, undefined, a non-string, '', or a string of separators only
Degenerate == kind # "string" \/ \A i \in DOMAIN input : input[i] \in NamedSeparators

\* C1: every converter returns the empty string, and throws nothing, for
\* null, undefined, a non-string value, the empty string, and a string made
\* only of spaces, hyphens and underscores.
C1_InputLeniency == (pc # "start" /\ Degenerate) => Returned(<<>>)

C1_Witness ==
  /\ pc = "done" /\ style = "kebab"
  /\ \/ kind = "number"
     \/ kind = "string" /\ input = <<" ", "-", "_">>
  /\ Returned(<<>>)

\* C2: converting a converter's output again in the same style gives the
\* same string.
C2_Idempotent == pc = "redone" => again = output

\* The words camelCase works on: the separator-delimited pieces, cleaned of
\* symbols, the empty ones dropped.
CleanWords(s) ==
  LET ws == SeparatorWords(trim(s))
  IN FilterNonEmpty([i \in DOMAIN ws |-> RemoveNonAlphaNum(ws[i])])

Capitalized(w) == <<ToUpperChar(w[1])>> \o toLowerCase(Tail(w))

CamelRule(words) ==
  Join([i \in DOMAIN words |->
          IF i = 1 THEN toLowerCase(words[i]) ELSE Capitalized(words[i])], <<>>)

\* No lowercase letter of the word is followed by an uppercase one.
NoCaseBoundary(w) ==
  \A i \in 1..(Len(w) - 1) : ~(w[i] \in Lower /\ w[i + 1] \in Upper)

\* C3: camelCase returns the first word lowercased in full followed by each
\* later word capitalized (first character uppercase, rest lowercase); the
\* result never begins with an uppercase letter.  Stated for the inputs
\* whose words hold no lowercase-to-uppercase transition, where the words
\* are the separator-delimited pieces whether or not such a transition
\* counts as a boundary.
C3_CamelRule ==
  (/\ pc = "done" /\ style = "camel" /\ kind = "string"
   /\ \A i \in DOMAIN CleanWords(input) : NoCaseBoundary(CleanWords(input)[i])) =>
    /\ Returned(CamelRule(CleanWords(input)))
    /\ output.value # <<>> => output.value[1] \notin Upper

InsertAt(s, p, c) == SubSeq(s, 1, p) \o <<c>> \o SubSeq(s, p + 1, Len(s))

StyleSeparator(st) ==
  CASE st = "kebab" -> {"-"}
    [] st = "dot"   -> {"."}
    [] OTHER        -> {}

\* C4: in every converter a lowercase letter followed by an uppercase letter
\* is a word boundary, exactly as if a space stood between them, and a run
\* of uppercase letters is one word: toKebabCase and dotCase put no
\* separator in it.
C4_CaseBoundaryUniform ==
  (pc = "done" /\ kind = "string") =>
    /\ \A i \in 1..(Len(input) - 1) :
         (input[i] \in Lower /\ input[i + 1] \in Upper) =>
            Convert(style, "string", InsertAt(input, i, " ")) = output
    /\ (\A i \in DOMAIN input : input[i] \in Upper) =>
         \A j \in DOMAIN output.value :
            output.value[j] \notin StyleSeparator(style)

\* C5: the output of a converter holds only ASCII letters and digits and the
\* style's own separator, and in kebab and dot style no uppercase letter.
C5_SymbolsStripped ==
  (pc = "done" /\ output.type = "return") =>
    \A j \in DOMAIN output.value :
       /\ output.value[j] \in AlphaNum \cup StyleSeparator(style)
       /\ style \in {"kebab", "dot"} => output.value[j] \notin Upper

\* C6: camelCase('user@name!') is 'userName'.
C6_UserNameExample ==
  (pc = "done" /\ style = "camel" /\ kind = "string" /\ input = UserName) =>
    Returned(<<"u","s","e","r","N","a","m","e">>)

\* The strings that differ from s by one more separator character in or
\* next to a separator run or at either end, or by another separator
\* character in place of one.
SeparatorVariants(s) ==
  {InsertAt(s, p, c) : <<p, c>> \in
     {x \in (0..Len(s)) \X NamedSeparators :
        \/ x[1] = 0
        \/ x[1] = Len(s)
        \/ s[x[1]] \in NamedSeparators
        \/ s[x[1] + 1] \in NamedSeparators}}
  \cup
  {[s EXCEPT ![x[1]] = x[2]] : x \in
     {y \in (DOMAIN s) \X NamedSeparators : s[y[1]] \in NamedSeparators}}

\* C7: lengthening a run of spaces, hyphens and underscores, changing which
\* of the three its characters are, or adding such a run before the first or
\* after the last word, leaves every converter's output unchanged.
C7_SeparatorCollapsing ==
  (pc = "done" /\ kind = "string") =>
    \A v \in SeparatorVariants(input) : Convert(style, "string", v) = output

C7_Witness ==
  /\ pc = "done" /\ style = "dot" /\ kind = "string"
  /\ input = <<"a", "-", " ", "a">>
  /\ Returned(<<"a", ".", "a">>)

NoEmptyToken(s, sep) ==
  /\ s # <<>> => (s[1] # sep /\ s[Len(s)] # sep)
  /\ \A i \in 1..(Len(s) - 1) : ~(s[i] = sep /\ s[i + 1] = sep)

\* C9: the output of toKebabCase never starts or ends with a hyphen nor holds
\* two adjacent hyphens; the output of dotCase never starts or ends with a
\* dot nor holds two adjacent dots.
C9_NoEmptyTokens ==
  (pc = "done" /\ output.type = "return") =>
    /\ style = "kebab" => NoEmptyToken(output.value, "-")
    /\ style = "dot" => NoEmptyToken(output.value, ".")

C9_Witness ==
  /\ pc = "done" /\ style = "dot" /\ kind = "string"
  /\ input = <<"-", "a", " ", "@">>
  /\ Returned(<<"a">>)

----------------------------------------------------------------------------
\* src/backend/routes/api/comments.js

\* The comments that may be stored, and the requests in one run.
MaxComments == 2
MaxRequests == 3

CommentIds == 1..MaxComments

\* The ids a request may name: those of the comments, and 0, the id of none.
RequestIds == 0..MaxComments

Requests == 1..MaxRequests

PostIds == {"p1", "p2"}

\* A document of the Comment model: its _id and its post.
CommentDoc(id) == [id |-> id, post |-> IF id % 2 = 1 THEN "p1" ELSE "p2"]

AllComments == {CommentDoc(id) : id \in CommentIds}

\* res.status(s).json(b); res.json(b) has status 200
Response(status, type, text, list) ==
  [status |-> status, type |-> type, text |-> text, list |-> list]

NotFound == Response(404, "error", "Comment not found", {})

DeleteFailed == Response(500, "error", "Failed to delete comment", {})

FetchFailed == Response(500, "error", "Failed to fetch comments", {})

Deleted == Response(200, "message", "Comment deleted successfully", {})

Listing(docs) == Response(200, "comments", "", docs)

\* A request nobody has sent yet.
IdleRequest ==
  [method |-> "none", param |-> "none", pc |-> "idle", settled |-> "pending",
   value |-> {}, existed |-> FALSE, after |-> {}, responses |-> <<>>]

InitConvIdle ==
  /\ kind = "string"
  /\ input = <<>>
  /\ style = "none"
  /\ output = NoCompletion
  /\ again = NoCompletion
  /\ pc = "idle"

InitRoutes ==
  /\ comments = AllComments
  /\ reqs = [r \in Requests |-> IdleRequest]
  /\ deletedOk = {}
  /\ InitConvIdle

\* Requests are numbered in their order of arrival.
NextToArrive(r) ==
  /\ reqs[r].pc = "idle"
  /\ \A q \in Requests : q < r => reqs[q].pc # "idle"

\* router.delete("/:commentId"): the handler runs to its await.  after is
\* the set of ids whose deletion had been answered with success by then.
DeleteCall(r) ==
  /\ NextToArrive(r)
  /\ \E id \in RequestIds :
       reqs' = [reqs EXCEPT ![r] = [@ EXCEPT !.method = "DELETE", !.param = id,
                                             !.pc = "awaiting", !.after = deletedOk]]
  /\ UNCHANGED <<comments, deletedOk, convVars>>

\* router.get("/post/:postId"): the handler runs to its await.
GetCall(r) ==
  /\ NextToArrive(r)
  /\ \E post \in PostIds :
       reqs' = [reqs EXCEPT ![r] = [@ EXCEPT !.method = "GET", !.param = post,
                                             !.pc = "awaiting", !.after = deletedOk]]
  /\ UNCHANGED <<comments, deletedOk, convVars>>

\* findByIdAndRemove without the removal (findById).
FindByIdAndRemove_KeepsDoc(r) ==
  /\ reqs[r].pc = "awaiting" /\ reqs[r].method = "DELETE"
  /\ LET found == {c \in comments : c.id = reqs[r].param}
     IN /\ comments' = comments
        /\ reqs' = [reqs EXCEPT ![r] = [@ EXCEPT !.pc = "settled", !.settled = "fulfilled",
                                                 !.value = found, !.existed = found # {}]]
  /\ UNCHANGED <<deletedOk, convVars>>

\* Comment.findByIdAndRemove(id) in the store: one atomic step that removes
\* the document and resolves to it, or resolves to null (no document).
FindByIdAndRemove(r) ==
  /\ reqs[r].pc = "awaiting" /\ reqs[r].method = "DELETE"
  /\ LET found == {c \in comments : c.id = reqs[r].param}
     IN /\ comments' = comments \ found
        /\ reqs' = [reqs EXCEPT ![r] = [@ EXCEPT !.pc = "settled", !.settled = "fulfilled",
                                                 !.value = found, !.existed = found # {}]]
  /\ UNCHANGED <<deletedOk, convVars>>

\* Comment.find({ post }) in the store: resolves to the documents of the post.
Find(r) ==
  /\ reqs[r].pc = "awaiting" /\ reqs[r].method = "GET"
  /\ reqs' = [reqs EXCEPT ![r] = [@ EXCEPT !.pc = "settled", !.settled = "fulfilled",
                 !.value = {c \in comments : c.post = reqs[r].param}]]
  /\ UNCHANGED <<comments, deletedOk, convVars>>

\* The store operation fails: the awaited promise rejects.  A removal that
\* failed may or may not have been applied.
StoreRejects(r) ==
  /\ reqs[r].pc = "awaiting"
  /\ reqs' = [reqs EXCEPT ![r] = [@ EXCEPT !.pc = "settled", !.settled = "rejected"]]
  /\ \/ comments' = comments
     \/ /\ reqs[r].method = "DELETE"
        /\ \E c \in comments : c.id = reqs[r].param /\ comments' = comments \ {c}
  /\ UNCHANGED <<deletedOk, convVars>>

\* The delete handler after its await: catch -> 500; !comment -> return 404;
\* else the success message.
DeleteRespond(r) ==
  /\ reqs[r].pc = "settled" /\ reqs[r].method = "DELETE"
  /\ LET resp == IF reqs[r].settled = "rejected" THEN DeleteFailed
                 ELSE IF reqs[r].value = {} THEN NotFound
                 ELSE Deleted
     IN /\ reqs' = [reqs EXCEPT ![r] = [@ EXCEPT !.pc = "done",
                                                 !.responses = Append(@, resp)]]
        /\ deletedOk' = IF resp = Deleted THEN deletedOk \cup {reqs[r].param}
                        ELSE deletedOk
  /\ UNCHANGED <<comments, convVars>>

\* The get handler after its await: catch -> 500; else res.json(comments).
GetRespond(r) ==
  /\ reqs[r].pc = "settled" /\ reqs[r].method = "GET"
  /\ LET resp == IF reqs[r].settled = "rejected" THEN FetchFailed
                 ELSE Listing(reqs[r].value)
     IN reqs' = [reqs EXCEPT ![r] = [@ EXCEPT !.pc = "done",
                                              !.responses = Append(@, resp)]]
  /\ UNCHANGED <<comments, deletedOk, convVars>>

NextRoutes ==
  \E r \in Requests :
    \/ DeleteCall(r)
    \/ GetCall(r)
    \/ FindByIdAndRemove(r)
    \/ Find(r)
    \/ StoreRejects(r)
    \/ DeleteRespond(r)
    \/ GetRespond(r)

SpecRoutes == InitRoutes /\ [][NextRoutes]_vars

----------------------------------------------------------------------------
\* Properties of the comment routes, checked under SpecRoutes.

====
